---- MODULE Spec2Model ----
(***************************************************************************)
(* A model of packages/merge/src/typedefs-mergers/merge-typedefs.ts:       *)
(*   - visitTypeSources   (SourceCollector)      -> SpecCollect            *)
(*   - mergeGraphQLTypes  (SchemaComposer, sort) -> SpecTypes              *)
(*   - mergeTypeDefs      (call life cycle and the shared comment          *)
(*                         registry)             -> Spec                   *)
(* merge-nodes.ts, comments.ts, utils.ts and schema-def.ts are imported by *)
(* that file but are not part of the sources at hand; the definitions that *)
(* stand for them follow the specification document and say so.            *)
(***************************************************************************)
EXTENDS Integers, Sequences, FiniteSets, TLC

\* ------------------------------------------------------------------ bounds
\* longest allNodes list handed to mergeGraphQLTypes in SpecTypes
MaxNodes == 3
\* number of distinct objects (by reference) an input of SpecCollect is made of
MaxRefs == 3
\* longest array, and longest definitions list of a document, in an input
MaxLen == 2
\* deepest nesting of mergeTypeDefs calls in Spec (2: one call made from within another)
MaxDepth == 2
\* most declarations in the input of one mergeTypeDefs call in Spec
MaxDecls == 2

VARIABLES
  \* ---- mergeGraphQLTypes (SpecTypes)
  astNodes,               \* the DefinitionNode objects of allNodes; the index is the object's identity
  config,                 \* the Config argument
  typesPc,                \* "call" before mergeGraphQLTypes runs, "returned" after
  mergedNodes,            \* the named part of the MergedResultMap, in key order
  schemaDef,              \* the root block: which object it is and its operationTypes at lines 153, 173 and 192
  mergedNodeDefinitions,  \* the list mergeGraphQLTypes returns
  \* ---- visitTypeSources (SpecCollect)
  typeDefs,               \* the `types` argument: the value the traversal starts from
  heap,                   \* the objects read so far, by reference
  callStack,              \* the active calls: the values each has still to visit, and its visited set
  visitedTypeDefs,        \* the Set objects made by the default parameter; the first is the outermost call's
  allNodes,               \* the collected definition nodes, by reference
  collectPc,              \* "running" | "returned" | "threw"
  thrown,                 \* the error thrown, "none" before
  visitLog,               \* every call of visitTypeSources so far: its argument and whether line 119 let it in
  \* ---- mergeTypeDefs and the comment registry (Spec)
  frames,                 \* the mergeTypeDefs calls in progress, outermost first
  commentsRegistry,       \* the one registry of comments.ts: the (declaration, comment) entries it holds
  outcome                 \* how the last outermost call ended: "none" | "returned" | "threw"

typesVars == <<astNodes, config, typesPc, mergedNodes, schemaDef, mergedNodeDefinitions>>

collectVars == <<typeDefs, heap, callStack, visitedTypeDefs, allNodes, collectPc, thrown, visitLog>>

callVars == <<frames, commentsRegistry, outcome>>

vars == <<astNodes, config, typesPc, mergedNodes, schemaDef, mergedNodeDefinitions,
          typeDefs, heap, callStack, visitedTypeDefs, allNodes, collectPc, thrown, visitLog,
          frames, commentsRegistry, outcome>>

\* ------------------------------------------------------------ declarations
\* a.name?.value of a node without a name (the schema definition)
NoName == "<undefined>"

\* the declaration names of the model, in ascending code-unit order
Names == <<"Apple", "Mango", "Mutation", "Query", "Subscription", "Zebra">>

NameSet == {Names[i] : i \in DOMAIN Names}

NamedNode(n) == [kind |-> "ObjectTypeDefinition", name |-> n, operationTypes |-> <<>>]

SchemaNode(ops) == [kind |-> "SchemaDefinition", name |-> NoName, operationTypes |-> ops]

OperationType(role, type) == [operation |-> role, type |-> type]

\* operation-type lists of the explicit schema definitions that inputs carry
ExplicitOperationTypes ==
  { <<>>,
    <<OperationType("query", "Query")>>,
    <<OperationType("query", "Apple")>>,
    <<OperationType("mutation", "Mango")>>,
    <<OperationType("subscription", "Zebra"), OperationType("query", "Apple")>> }

NodeUniverse == {NamedNode(n) : n \in NameSet} \cup {SchemaNode(o) : o \in ExplicitOperationTypes}

SeqsUpTo(S, n) == UNION {[1..k -> S] : k \in 0..n}

IsSchemaNode(node) == node.kind = "SchemaDefinition"

IsNamedNode(node) == ~IsSchemaNode(node)

\* ------------------------------------------------- merge-nodes / schema-def
\* keys of operationTypeDefinitionNodeTypeRootTypeMap, in enumeration order
OperationRoles == <<"query", "mutation", "subscription">>

\* operationTypeDefinitionNodeTypeRootTypeMap[role]
RootTypeName(role) ==
  CASE role = "query" -> "Query"
    [] role = "mutation" -> "Mutation"
    [] role = "subscription" -> "Subscription"

RECURSIVE FirstSeen(_, _)
\* the named nodes of `nodes` from position i on, one per name, first-seen order
FirstSeen(nodes, seen) ==
  IF nodes = <<>> THEN <<>>
  ELSE LET n == Head(nodes)
       IN IF IsSchemaNode(n) \/ n.name \in seen
          THEN FirstSeen(Tail(nodes), seen)
          ELSE <<NamedNode(n.name)>> \o FirstSeen(Tail(nodes), seen \cup {n.name})

\* mergeGraphQLNodes: one merged declaration per name, first-seen name order
MergeGraphQLNodes(nodes) == FirstSeen(nodes, {})

\* mergedNodes[schemaDefSymbol]: the explicit schema definition that is retained,
\* 0 when the input has none; which one of several is retained is left open
SchemaDefSlots(nodes) ==
  LET explicit == {i \in DOMAIN nodes : IsSchemaNode(nodes[i])}
  IN IF explicit = {} THEN {0} ELSE explicit

\* mergedNodes[name] is set
HasMergedNode(merged, name) == \E i \in DOMAIN merged : merged[i].name = name

\* ----------------------------------------------------- mergeGraphQLTypes
\* operationTypes.find(operationType => operationType.operation === role)
FindOperationType(operationTypes, role) ==
  \E i \in DOMAIN operationTypes : operationTypes[i].operation = role

RECURSIVE InferOperationTypes(_, _, _)
\* the for-in loop over the roles, from the k-th role on
InferOperationTypes(operationTypes, merged, k) ==
  IF k > Len(OperationRoles) THEN operationTypes
  ELSE LET role == OperationRoles[k]
           next == IF ~FindOperationType(operationTypes, role)
                      /\ HasMergedNode(merged, RootTypeName(role))
                   THEN Append(operationTypes, OperationType(role, RootTypeName(role)))
                   ELSE operationTypes
       IN InferOperationTypes(next, merged, k + 1)

\* the inference run whatever the flag says
UseSchemaDefinitionAlways(operationTypes, merged, cfg) ==
  InferOperationTypes(operationTypes, merged, 1)

\* if (config?.useSchemaDefinition) { ... }
UseSchemaDefinition(operationTypes, merged, cfg) ==
  IF cfg.useSchemaDefinition THEN InferOperationTypes(operationTypes, merged, 1)
  ELSE operationTypes

\* the forced block without the test for an empty operationTypes list
ForceSchemaDefinitionAlways(operationTypes, cfg) ==
  IF cfg.forceSchemaDefinition THEN <<OperationType("query", "Query")>> ELSE operationTypes

\* if (config?.forceSchemaDefinition && !schemaDef?.operationTypes?.length) { ... }
ForceSchemaDefinition(operationTypes, cfg) ==
  IF cfg.forceSchemaDefinition /\ Len(operationTypes) = 0
  THEN <<OperationType("query", "Query")>>
  ELSE operationTypes

\* the push of schemaDef without the test for operation types
PushSchemaDefAlways(merged, operationTypes) == Append(merged, SchemaNode(operationTypes))

\* Object.values(mergedNodes), then the push of schemaDef when it has operation types
PushSchemaDef(merged, operationTypes) ==
  IF Len(operationTypes) > 0 THEN Append(merged, SchemaNode(operationTypes)) ELSE merged

\* position of a name in ascending order; an absent name comes first
Rank(key) == IF key = NoName THEN 0 ELSE CHOOSE i \in DOMAIN Names : Names[i] = key

Sign(a, b) == IF a < b THEN -1 ELSE IF a > b THEN 1 ELSE 0

\* defaultStringComparator of ./utils
DefaultStringComparator(a, b) == Sign(Rank(a), Rank(b))

\* a caller's CompareFn<string>: descending order
DescendingComparator(a, b) == Sign(Rank(b), Rank(a))

\* sortFn = typeof config.sort === 'function' ? config.sort : defaultStringComparator
SortFn(cfg, a, b) ==
  IF cfg.sort = "function" THEN DescendingComparator(a, b) ELSE DefaultStringComparator(a, b)

\* the comparator with its two arguments exchanged
CompareNodesSwapped(cfg, a, b) == SortFn(cfg, b.name, a.name)

\* the comparator handed to Array.prototype.sort
CompareNodes(cfg, a, b) == SortFn(cfg, a.name, b.name)

RECURSIVE InsertSorted(_, _, _)
\* x placed behind every element that does not sort after it (a stable insertion)
InsertSorted(cfg, sorted, x) ==
  IF sorted = <<>> THEN <<x>>
  ELSE IF CompareNodes(cfg, sorted[Len(sorted)], x) <= 0 THEN Append(sorted, x)
  ELSE Append(InsertSorted(cfg, SubSeq(sorted, 1, Len(sorted) - 1), x), sorted[Len(sorted)])

RECURSIVE ArraySort(_, _)
\* Array.prototype.sort with that comparator: a stable sort
ArraySort(cfg, list) ==
  IF list = <<>> THEN <<>>
  ELSE InsertSorted(cfg, ArraySort(cfg, SubSeq(list, 1, Len(list) - 1)), list[Len(list)])

\* if (config?.sort) { ... }
SortDefinitions(list, cfg) == IF cfg.sort # "false" THEN ArraySort(cfg, list) ELSE list

Configs ==
  [useSchemaDefinition : BOOLEAN, forceSchemaDefinition : BOOLEAN,
   sort : {"false", "true", "function"}]

NoSchemaDef == [slot |-> 0, explicit |-> <<>>, inferred |-> <<>>, final |-> <<>>]

\* the variables of the other specifications, at rest
CollectIdle ==
  /\ typeDefs = "none"
  /\ heap = <<>>
  /\ callStack = <<>>
  /\ visitedTypeDefs = <<>>
  /\ allNodes = <<>>
  /\ collectPc = "idle"
  /\ thrown = "none"
  /\ visitLog = <<>>

CallIdle ==
  /\ frames = <<>>
  /\ commentsRegistry = {}
  /\ outcome = "none"

TypesInit ==
  /\ CollectIdle
  /\ CallIdle
  /\ astNodes \in SeqsUpTo(NodeUniverse, MaxNodes)
  /\ config \in Configs
  /\ typesPc = "call"
  /\ mergedNodes = <<>>
  /\ schemaDef = NoSchemaDef
  /\ mergedNodeDefinitions = <<>>

\* mergeGraphQLTypes, from mergeGraphQLNodes to the return
MergeGraphQLTypes ==
  /\ typesPc = "call"
  /\ \E slot \in SchemaDefSlots(astNodes) :
       LET merged == MergeGraphQLNodes(astNodes)
           explicit == IF slot = 0 THEN <<>> ELSE astNodes[slot].operationTypes
           inferred == UseSchemaDefinition(explicit, merged, config)
           final == ForceSchemaDefinition(inferred, config)
       IN /\ mergedNodes' = merged
          \* operationTypes.push writes into the retained object's own array
          /\ astNodes' = IF slot = 0 THEN astNodes
                         ELSE [astNodes EXCEPT ![slot].operationTypes = inferred]
          /\ schemaDef' = [slot |-> slot, explicit |-> explicit,
                           inferred |-> inferred, final |-> final]
          /\ mergedNodeDefinitions' = SortDefinitions(PushSchemaDef(merged, final), config)
          /\ typesPc' = "returned"
  /\ UNCHANGED <<config, collectVars, callVars>>

TypesNext == MergeGraphQLTypes

SpecTypes == TypesInit /\ [][TypesNext]_vars

\* ------------------------------------------------------- visitTypeSources
\* A value is a primitive, compared by content, or a reference to an object.
ObjectRef(r) == [tag |-> "object", id |-> r]

\* the array `definitions` of the document object r
DefinitionsOf(r) == [tag |-> "definitions", id |-> r]

StringValue(k) == [tag |-> "string", id |-> k]

NumberValue(k) == [tag |-> "number", id |-> k]

NullValue == [tag |-> "null", id |-> 0]

\* the SDL text with one declaration
SomeText == StringValue(1)

InputRefs == 1..MaxRefs

Primitives == {SomeText, NumberValue(7), NullValue}

Values == {ObjectRef(r) : r \in InputRefs} \cup Primitives

HeapObject(kind, returns, elems) == [kind |-> kind, returns |-> returns, elems |-> elems]

\* what an object of the input can be
InputObjects ==
  {HeapObject("function", v, <<>>) : v \in Values}
    \cup {HeapObject("array", NullValue, e) : e \in SeqsUpTo(Values, MaxLen)}
    \cup {HeapObject("document", NullValue, e) : e \in SeqsUpTo(Values, MaxLen)}
    \cup {HeapObject(k, NullValue, <<>>) : k \in {"schema", "source", "definition", "other"}}

\* the object behind reference r: as read before, or read now
ObjectsAt(r) == IF r \in DOMAIN heap THEN {heap[r]} ELSE InputObjects

\* references of the objects that parse and getDocumentNodeFromSchema create
FreshRef == MaxRefs + Cardinality(DOMAIN heap \ InputRefs) + 1

\* a document with one declaration, as parse or getDocumentNodeFromSchema returns it
WithFreshDocument(h) ==
  (FreshRef :> HeapObject("document", NullValue, <<ObjectRef(FreshRef + 1)>>))
    @@ ((FreshRef + 1) :> HeapObject("definition", NullValue, <<>>)) @@ h

\* !typeDefs
Falsy(v) ==
  \/ v.tag = "null"
  \/ v.tag = "number" /\ v.id = 0
  \/ v.tag = "string" /\ v.id = 0

\* typeof typeDefs
TypeOf(v, obj) ==
  CASE v.tag = "string" -> "string"
    [] v.tag = "number" -> "number"
    [] v.tag = "object" /\ obj.kind = "function" -> "function"
    [] OTHER -> "object"

TopFrame == callStack[Len(callStack)]

\* the argument of the call of visitTypeSources that runs next
NextValue == Head(TopFrame.items)

Visited(v, set) == v \in visitedTypeDefs[set]

\* the guard of line 119 without the look-up in the visited set
PassesGuardUnvisited(v, set) == ~Falsy(v)

\* typeDefs && !visitedTypeDefs.has(typeDefs)
PassesGuard(v, set) == ~Falsy(v) /\ ~Visited(v, set)

Running == collectPc = "running" /\ callStack # <<>> /\ TopFrame.items # <<>>

\* the stack once the call on NextValue is made and calls visitTypeSources on `items`
Recurse(items, set) ==
  Append([callStack EXCEPT ![Len(callStack)].items = Tail(@)], [items |-> items, set |-> set])

Logged(entered) == Append(visitLog, [value |-> NextValue, entered |-> entered])

\* the set left as it was: visitedTypeDefs.add is not made
AddNothing == visitedTypeDefs

\* visitedTypeDefs.add(typeDefs)
AddVisited == [visitedTypeDefs EXCEPT ![TopFrame.set] = @ \cup {NextValue}]

CollectInit ==
  /\ typeDefs \in {ObjectRef(1)} \cup Primitives
  /\ heap = <<>>
  /\ callStack = <<[items |-> <<typeDefs>>, set |-> 1]>>
  /\ visitedTypeDefs = <<{}>>
  /\ allNodes = <<>>
  /\ collectPc = "running"
  /\ thrown = "none"
  /\ visitLog = <<>>
  /\ astNodes = <<>>
  /\ config = [useSchemaDefinition |-> TRUE, forceSchemaDefinition |-> FALSE, sort |-> "false"]
  /\ typesPc = "idle"
  /\ mergedNodes = <<>>
  /\ schemaDef = NoSchemaDef
  /\ mergedNodeDefinitions = <<>>
  /\ CallIdle

\* line 119 is false: the call returns at once
VisitSkipped ==
  /\ Running
  /\ ~PassesGuard(NextValue, TopFrame.set)
  /\ callStack' = [callStack EXCEPT ![Len(callStack)].items = Tail(@)]
  /\ visitLog' = Logged(FALSE)
  /\ UNCHANGED <<typeDefs, heap, visitedTypeDefs, allNodes, collectPc, thrown, typesVars, callVars>>

\* typeof typeDefs === 'function': the thunk is called and its result visited
VisitFunction ==
  /\ Running
  /\ PassesGuard(NextValue, TopFrame.set)
  /\ NextValue.tag = "object"
  /\ \E obj \in ObjectsAt(NextValue.id) :
       /\ obj.kind = "function"
       /\ heap' = (NextValue.id :> obj) @@ heap
       /\ callStack' = Recurse(<<obj.returns>>, TopFrame.set)
  /\ visitedTypeDefs' = AddVisited
  /\ visitLog' = Logged(TRUE)
  /\ UNCHANGED <<typeDefs, allNodes, collectPc, thrown, typesVars, callVars>>

\* Array.isArray(typeDefs): forEach over the elements
VisitArray ==
  /\ Running
  /\ PassesGuard(NextValue, TopFrame.set)
  /\ \/ /\ NextValue.tag = "object"
        /\ \E obj \in ObjectsAt(NextValue.id) :
             /\ obj.kind = "array"
             /\ heap' = (NextValue.id :> obj) @@ heap
             /\ callStack' = Recurse(obj.elems, TopFrame.set)
     \/ /\ NextValue.tag = "definitions"
        /\ heap' = heap
        /\ callStack' = Recurse(heap[NextValue.id].elems, TopFrame.set)
  /\ visitedTypeDefs' = AddVisited
  /\ visitLog' = Logged(TRUE)
  /\ UNCHANGED <<typeDefs, allNodes, collectPc, thrown, typesVars, callVars>>

\* isSchema(typeDefs): the definitions of getDocumentNodeFromSchema are visited
\* by a call that is given no visited set and so makes a new one
VisitSchema ==
  /\ Running
  /\ PassesGuard(NextValue, TopFrame.set)
  /\ NextValue.tag = "object"
  /\ \E obj \in ObjectsAt(NextValue.id) :
       /\ obj.kind = "schema"
       /\ heap' = WithFreshDocument((NextValue.id :> obj) @@ heap)
  /\ visitedTypeDefs' = Append(AddVisited, {})
  /\ callStack' = Recurse(<<DefinitionsOf(FreshRef)>>, Len(visitedTypeDefs) + 1)
  /\ visitLog' = Logged(TRUE)
  /\ UNCHANGED <<typeDefs, allNodes, collectPc, thrown, typesVars, callVars>>

\* isStringTypes(typeDefs) || isSourceTypes(typeDefs): parse, then visit the definitions
VisitText ==
  /\ Running
  /\ PassesGuard(NextValue, TopFrame.set)
  /\ \/ /\ NextValue.tag = "string"
        /\ heap' = WithFreshDocument(heap)
     \/ /\ NextValue.tag = "object"
        /\ \E obj \in ObjectsAt(NextValue.id) :
             /\ obj.kind = "source"
             /\ heap' = WithFreshDocument((NextValue.id :> obj) @@ heap)
  /\ visitedTypeDefs' = AddVisited
  /\ callStack' = Recurse(<<DefinitionsOf(FreshRef)>>, TopFrame.set)
  /\ visitLog' = Logged(TRUE)
  /\ UNCHANGED <<typeDefs, allNodes, collectPc, thrown, typesVars, callVars>>

\* isDefinitionNode(typeDefs): allNodes.push(typeDefs)
VisitDefinition ==
  /\ Running
  /\ PassesGuard(NextValue, TopFrame.set)
  /\ NextValue.tag = "object"
  /\ \E obj \in ObjectsAt(NextValue.id) :
       /\ obj.kind = "definition"
       /\ heap' = (NextValue.id :> obj) @@ heap
  /\ visitedTypeDefs' = AddVisited
  /\ allNodes' = Append(allNodes, NextValue)
  /\ callStack' = [callStack EXCEPT ![Len(callStack)].items = Tail(@)]
  /\ visitLog' = Logged(TRUE)
  /\ UNCHANGED <<typeDefs, collectPc, thrown, typesVars, callVars>>

\* isDocumentNode(typeDefs): visit typeDefs.definitions
VisitDocument ==
  /\ Running
  /\ PassesGuard(NextValue, TopFrame.set)
  /\ NextValue.tag = "object"
  /\ \E obj \in ObjectsAt(NextValue.id) :
       /\ obj.kind = "document"
       /\ heap' = (NextValue.id :> obj) @@ heap
  /\ visitedTypeDefs' = AddVisited
  /\ callStack' = Recurse(<<DefinitionsOf(NextValue.id)>>, TopFrame.set)
  /\ visitLog' = Logged(TRUE)
  /\ UNCHANGED <<typeDefs, allNodes, collectPc, thrown, typesVars, callVars>>

\* the chain of branches without its last else: the value is passed over
VisitInvalidIgnored ==
  /\ Running
  /\ PassesGuard(NextValue, TopFrame.set)
  /\ \/ NextValue.tag = "number" /\ heap' = heap
     \/ /\ NextValue.tag = "object"
        /\ \E obj \in ObjectsAt(NextValue.id) :
             /\ obj.kind = "other"
             /\ heap' = (NextValue.id :> obj) @@ heap
  /\ visitedTypeDefs' = AddVisited
  /\ callStack' = [callStack EXCEPT ![Len(callStack)].items = Tail(@)]
  /\ visitLog' = Logged(TRUE)
  /\ UNCHANGED <<typeDefs, allNodes, collectPc, thrown, typesVars, callVars>>

\* else: throw new Error(`typeDefs must be ..., got ${typeof typeDefs}`)
VisitInvalid ==
  /\ Running
  /\ PassesGuard(NextValue, TopFrame.set)
  /\ \/ /\ NextValue.tag = "number"
        /\ heap' = heap
        /\ thrown' = TypeOf(NextValue, "none")
     \/ /\ NextValue.tag = "object"
        /\ \E obj \in ObjectsAt(NextValue.id) :
             /\ obj.kind = "other"
             /\ heap' = (NextValue.id :> obj) @@ heap
             /\ thrown' = TypeOf(NextValue, obj)
  /\ visitedTypeDefs' = AddVisited
  /\ callStack' = <<>>
  /\ collectPc' = "threw"
  /\ visitLog' = Logged(TRUE)
  /\ UNCHANGED <<typeDefs, allNodes, typesVars, callVars>>

\* a call has visited all it had to: it returns to its caller
ReturnFromVisit ==
  /\ collectPc = "running"
  /\ callStack # <<>>
  /\ TopFrame.items = <<>>
  /\ callStack' = SubSeq(callStack, 1, Len(callStack) - 1)
  /\ collectPc' = IF Len(callStack) = 1 THEN "returned" ELSE "running"
  /\ UNCHANGED <<typeDefs, heap, visitedTypeDefs, allNodes, thrown, visitLog, typesVars, callVars>>

CollectNext ==
  \/ VisitSkipped
  \/ VisitFunction
  \/ VisitArray
  \/ VisitSchema
  \/ VisitText
  \/ VisitDefinition
  \/ VisitDocument
  \/ VisitInvalid
  \/ ReturnFromVisit

SpecCollect == CollectInit /\ [][CollectNext]_vars

\* a call runs to completion: a step that can be taken is taken
SpecCollectFair == SpecCollect /\ WF_vars(CollectNext)

\* ------------------------------------------- mergeTypeDefs and the registry
\* The input of a call is kept as the number of its declarations and which of
\* them carry a description written as a comment.
CallConfigs ==
  [commentDescriptions : BOOLEAN, throwOnConflict : BOOLEAN, sort : {"false", "function"}]

CallInputs == {[size |-> n, commented |-> c] : n \in 0..MaxDecls, c \in SUBSET (1..MaxDecls)}

ValidInput(input) == input.commented \subseteq 1..input.size

\* a call of mergeTypeDefs that has just been made
NewFrame(cfg, input) ==
  [pc |-> "entry", cfg |-> cfg, input |-> input,
   recorded |-> {},      \* the registry entries this call wrote
   nested |-> "none",    \* how the last call made from within this one ended, since this one wrote
   printed |-> {}]       \* the entries printWithComments found

Depth == Len(frames)

Top == frames[Depth]

At(pc) == Depth > 0 /\ Top.pc = pc

Goto(pc) == [frames EXCEPT ![Depth].pc = pc]

\* resetComments of ./comments
ResetComments(registry) == {}

\* the entries collected for the first n declarations of the running call's input
CommentsOf(n) == {[call |-> Depth, decl |-> d] : d \in Top.input.commented \cap 1..n}

CallInit ==
  /\ CallIdle
  /\ CollectIdle
  /\ astNodes = <<>>
  /\ config = [useSchemaDefinition |-> TRUE, forceSchemaDefinition |-> FALSE, sort |-> "false"]
  /\ typesPc = "idle"
  /\ mergedNodes = <<>>
  /\ schemaDef = NoSchemaDef
  /\ mergedNodeDefinitions = <<>>

\* a caller calls mergeTypeDefs(types, config)
CallMergeTypeDefs ==
  /\ Depth = 0
  /\ \E cfg \in CallConfigs, input \in CallInputs :
       /\ ValidInput(input)
       /\ frames' = <<NewFrame(cfg, input)>>
  /\ UNCHANGED <<commentsRegistry, outcome, typesVars, collectVars>>

\* line 92: resetComments()
ResetAtEntry ==
  /\ At("entry")
  /\ commentsRegistry' = ResetComments(commentsRegistry)
  /\ frames' = Goto("types")
  /\ UNCHANGED <<outcome, typesVars, collectVars>>

\* line 142: resetComments() in mergeGraphQLTypes
ResetInTypes ==
  /\ At("types")
  /\ commentsRegistry' = ResetComments(commentsRegistry)
  /\ frames' = Goto("visit")
  /\ UNCHANGED <<outcome, typesVars, collectVars>>

\* line 122: a thunk of the input, called by visitTypeSources, calls mergeTypeDefs
ThunkCallsMergeTypeDefs ==
  /\ At("visit")
  /\ Depth < MaxDepth
  /\ \E cfg \in CallConfigs, input \in CallInputs :
       /\ ValidInput(input)
       /\ frames' = Append(frames, NewFrame(cfg, input))
  /\ UNCHANGED <<commentsRegistry, outcome, typesVars, collectVars>>

\* line 145: visitTypeSources returns
VisitReturns ==
  /\ At("visit")
  /\ frames' = Goto("nodes")
  /\ UNCHANGED <<commentsRegistry, outcome, typesVars, collectVars>>

\* lines 129, 136: parse or visitTypeSources throws
VisitThrows ==
  /\ At("visit")
  /\ frames' = Goto("threw")
  /\ UNCHANGED <<commentsRegistry, outcome, typesVars, collectVars>>

\* line 147: mergeGraphQLNodes returns, the comments of the declarations collected
MergeNodes ==
  /\ At("nodes")
  /\ commentsRegistry' = commentsRegistry \cup CommentsOf(Top.input.size)
  /\ frames' = [frames EXCEPT ![Depth].pc = "sort",
                              ![Depth].recorded = CommentsOf(Top.input.size),
                              ![Depth].nested = "none"]
  /\ UNCHANGED <<outcome, typesVars, collectVars>>

\* line 147: mergeGraphQLNodes throws on a conflict at the n-th declaration
MergeNodesConflict ==
  /\ At("nodes")
  /\ Top.cfg.throwOnConflict
  /\ \E n \in 2..Top.input.size :
       /\ commentsRegistry' = commentsRegistry \cup CommentsOf(n)
       /\ frames' = [frames EXCEPT ![Depth].pc = "threw",
                                   ![Depth].recorded = CommentsOf(n),
                                   ![Depth].nested = "none"]
  /\ UNCHANGED <<outcome, typesVars, collectVars>>

\* line 202: the caller's comparator is called only for a list of two or more
ComparatorRuns == At("sort") /\ Top.cfg.sort = "function" /\ Top.input.size >= 2

\* line 202: the comparator calls mergeTypeDefs
ComparatorCallsMergeTypeDefs ==
  /\ ComparatorRuns
  /\ Depth < MaxDepth
  /\ \E cfg \in CallConfigs, input \in CallInputs :
       /\ ValidInput(input)
       /\ frames' = Append(frames, NewFrame(cfg, input))
  /\ UNCHANGED <<commentsRegistry, outcome, typesVars, collectVars>>

\* line 202: the comparator throws
ComparatorThrows ==
  /\ ComparatorRuns
  /\ frames' = Goto("threw")
  /\ UNCHANGED <<commentsRegistry, outcome, typesVars, collectVars>>

\* lines 150-205: mergeGraphQLTypes returns the definitions
TypesReturn ==
  /\ At("sort")
  /\ frames' = Goto("print")
  /\ UNCHANGED <<commentsRegistry, outcome, typesVars, collectVars>>

\* lines 107-111: printWithComments(doc) when commentDescriptions is set, else doc
PrintResult ==
  /\ At("print")
  /\ frames' = [frames EXCEPT ![Depth].pc = "exit",
                              ![Depth].printed =
                                 IF Top.cfg.commentDescriptions
                                 THEN {e \in commentsRegistry : e.call = Depth}
                                 ELSE {}]
  /\ UNCHANGED <<commentsRegistry, outcome, typesVars, collectVars>>

\* line 113 left out: the call goes on to its return with the registry as it is
NoResetAtExit ==
  /\ At("exit")
  /\ frames' = Goto("return")
  /\ UNCHANGED <<commentsRegistry, outcome, typesVars, collectVars>>

\* line 113: resetComments()
ResetAtExit ==
  /\ At("exit")
  /\ commentsRegistry' = ResetComments(commentsRegistry)
  /\ frames' = Goto("return")
  /\ UNCHANGED <<outcome, typesVars, collectVars>>

Pop == SubSeq(frames, 1, Depth - 1)

\* line 115: return result, to the thunk or comparator that called, or to the caller
ReturnResult ==
  /\ At("return")
  /\ frames' = IF Depth = 1 THEN <<>> ELSE [Pop EXCEPT ![Depth - 1].nested = "returned"]
  /\ outcome' = IF Depth = 1 THEN "returned" ELSE outcome
  /\ UNCHANGED <<commentsRegistry, typesVars, collectVars>>

\* an error leaves mergeTypeDefs: no statement of it runs any more
ErrorLeavesCall ==
  /\ At("threw")
  /\ \/ /\ Depth = 1
        /\ frames' = <<>>
        /\ outcome' = "threw"
     \/ /\ Depth > 1    \* the thunk or comparator lets the error through
        /\ frames' = [Pop EXCEPT ![Depth - 1].pc = "threw"]
        /\ outcome' = outcome
     \/ /\ Depth > 1    \* the thunk or comparator catches the error
        /\ frames' = [Pop EXCEPT ![Depth - 1].nested = "threw"]
        /\ outcome' = outcome
  /\ UNCHANGED <<commentsRegistry, typesVars, collectVars>>

Next ==
  \/ CallMergeTypeDefs
  \/ ResetAtEntry
  \/ ResetInTypes
  \/ ThunkCallsMergeTypeDefs
  \/ VisitReturns
  \/ VisitThrows
  \/ MergeNodes
  \/ MergeNodesConflict
  \/ ComparatorCallsMergeTypeDefs
  \/ ComparatorThrows
  \/ TypesReturn
  \/ PrintResult
  \/ ResetAtExit
  \/ ReturnResult
  \/ ErrorLeavesCall

Spec == CallInit /\ [][Next]_vars

\* ------------------------------------------------------ properties of Spec
\* C5 as stated: whenever no merge call is in progress, after a return as after
\* an error, the registry holds no comment data.
C5_RegistryEmptyBetweenCalls == Depth = 0 => commentsRegistry = {}

\* C9: when a call of mergeTypeDefs made from within another one has returned
\* and the outer call has not written to the registry since, the one registry
\* is empty: whatever the outer call recorded is gone, and its printWithComments
\* finds no comment.
C9_NestedCallClearsRegistry ==
  \A k \in DOMAIN frames :
    (k = Depth /\ frames[k].nested = "returned") =>
      /\ frames[k].pc \in {"visit", "nodes", "sort", "print"} => commentsRegistry = {}
      /\ frames[k].pc \in {"exit", "return"} => frames[k].printed = {}

\* the outer call has printed in comment mode without the comments it recorded,
\* after its comparator made a nested call
C9_Witness ==
  /\ Depth = 1
  /\ frames[1].pc = "exit"
  /\ frames[1].cfg.commentDescriptions
  /\ frames[1].cfg.sort = "function"
  /\ frames[1].nested = "returned"
  /\ frames[1].recorded # {}
  /\ frames[1].printed = {}

\* --------------------------------------------- properties of SpecCollect
Terminated == collectPc \in {"returned", "threw"}

EnteredAt == {i \in DOMAIN visitLog : visitLog[i].entered}

IsFresh(v) == v.tag \in {"object", "definitions"} /\ v.id > MaxRefs

\* a value that is none of Text, ParsedSource, Tree, ExecutableDefinition,
\* SingleDeclaration, Sequence, Thunk
OutsideVariant(v) ==
  \/ v.tag \in {"null", "number"}
  \/ v.tag = "object" /\ v.id \in DOMAIN heap /\ heap[v.id].kind = "other"

\* typeof of a value outside the variant
TypeOfOutside(v) == IF v.tag = "object" THEN TypeOf(v, heap[v.id]) ELSE TypeOf(v, "none")

\* C4 as stated: every value outside the SchemaInput variant that the traversal
\* comes to, at the top level, in an array or from a thunk, makes the call fail
\* with the error that names the value's runtime type.
C4_RejectsEveryOutsideShape ==
  \A i \in DOMAIN visitLog :
    OutsideVariant(visitLog[i].value)
      => collectPc = "threw" /\ thrown = TypeOfOutside(visitLog[i].value)

\* C4 as amended: a truthy value outside the variant makes the call fail at
\* once with the error naming its runtime type, and nothing is returned; a falsy
\* one (null, undefined, false, 0) is passed over by the guard of line 119; and
\* the call fails for no other value.
C4_RejectsTruthyOutsideShape ==
  /\ \A i \in DOMAIN visitLog :
       OutsideVariant(visitLog[i].value) =>
         IF Falsy(visitLog[i].value)
         THEN ~visitLog[i].entered
         ELSE /\ collectPc = "threw"
              /\ thrown = TypeOfOutside(visitLog[i].value)
              /\ i = Len(visitLog)
              /\ callStack = <<>>
  /\ collectPc = "threw" =>
       /\ visitLog # <<>>
       /\ OutsideVariant(visitLog[Len(visitLog)].value)
       /\ ~Falsy(visitLog[Len(visitLog)].value)
  /\ collectPc # "threw" => thrown = "none"

\* an array whose first element is null and whose second is a thunk that returns a number
C4_Witness ==
  /\ collectPc = "threw"
  /\ thrown = "number"
  /\ typeDefs = ObjectRef(1)
  /\ heap[1].kind = "array"
  /\ heap[1].elems = <<NullValue, ObjectRef(2)>>
  /\ 2 \in DOMAIN heap
  /\ heap[2].kind = "function"
  /\ heap[2].returns = NumberValue(7)
  /\ allNodes = <<>>

IsReference(v) == v.tag \in {"object", "definitions"}

EnteredBefore(i) == \E j \in EnteredAt : j < i /\ visitLog[j].value = visitLog[i].value

\* C6 as stated: an input is passed over only when it is reached a second time
\* through the same reference; inputs equal in content at different positions,
\* two equal texts among them, are each traversed.
C6_EqualInputsEachTraversed ==
  \A i \in DOMAIN visitLog :
    ~visitLog[i].entered
      => \/ Falsy(visitLog[i].value)
         \/ IsReference(visitLog[i].value) /\ EnteredBefore(i)

IsEnteredDefinition(entry) ==
  /\ entry.entered
  /\ entry.value.tag = "object"
  /\ entry.value.id \in DOMAIN heap
  /\ heap[entry.value.id].kind = "definition"

CollectedInLog == SelectSeq(visitLog, IsEnteredDefinition)

\* C6 as amended: the visited set compares objects by reference and strings by
\* content: a truthy value is passed over exactly when an equal value (the same
\* object, or a text with the same content) was let in before; distinct objects
\* are each traversed whatever their content; and the collected list holds the
\* definition nodes in the order in which the traversal came to them.
C6_VisitedBySameValue ==
  /\ \A i \in DOMAIN visitLog :
       ~visitLog[i].entered <=> (Falsy(visitLog[i].value) \/ EnteredBefore(i))
  /\ Len(allNodes) = Len(CollectedInLog)
  /\ \A n \in DOMAIN allNodes : allNodes[n] = CollectedInLog[n].value

\* two distinct Source objects with the same text are both parsed
C6_Witness ==
  /\ collectPc = "returned"
  /\ typeDefs = ObjectRef(1)
  /\ heap[1].kind = "array"
  /\ heap[1].elems = <<ObjectRef(2), ObjectRef(3)>>
  /\ heap[2].kind = "source"
  /\ heap[3].kind = "source"
  /\ Len(allNodes) = 2

\* C7: the traversal of an input graph of finitely many references ends, by a
\* return or a throw, cycles through thunks and arrays included: no value is
\* recursed into twice, every value of the input is looked up in the one set the
\* outermost call made (another set only ever sees objects made during the
\* traversal), the calls in progress are calls on distinct entered values, and
\* the collected list holds each definition node once.
C7_Terminates ==
  /\ [](/\ \A i, j \in EnteredAt : visitLog[i].value = visitLog[j].value => i = j
        /\ \A k \in DOMAIN callStack :
             callStack[k].set # 1 => \A n \in DOMAIN callStack[k].items : IsFresh(callStack[k].items[n])
        /\ \A k \in DOMAIN visitedTypeDefs : k # 1 => \A v \in visitedTypeDefs[k] : IsFresh(v)
        /\ Len(callStack) <= Cardinality(EnteredAt) + 1
        /\ \A i, j \in DOMAIN allNodes : allNodes[i] = allNodes[j] => i = j)
  /\ <>Terminated

\* an array that holds itself and a thunk that returns that array: the traversal is over
C7_Witness ==
  /\ collectPc = "returned"
  /\ typeDefs = ObjectRef(1)
  /\ 2 \in DOMAIN heap
  /\ heap[1].kind = "array"
  /\ heap[1].elems = <<ObjectRef(1), ObjectRef(2)>>
  /\ heap[2].kind = "function"
  /\ heap[2].returns = ObjectRef(1)

\* ------------------------------------------------ properties of SpecTypes
Returned == typesPc = "returned"

Count(list, x) == Cardinality({i \in DOMAIN list : list[i] = x})

CountRole(operationTypes, role) ==
  Cardinality({i \in DOMAIN operationTypes : operationTypes[i].operation = role})

RoleSet == {OperationRoles[i] : i \in DOMAIN OperationRoles}

IsPrefix(a, b) == Len(a) <= Len(b) /\ SubSeq(b, 1, Len(a)) = a

\* the entries that the inference step put behind the explicit ones
AddedEntries == SubSeq(schemaDef.inferred, Len(schemaDef.explicit) + 1, Len(schemaDef.inferred))

C2_ForcedRoot ==
  Returned =>
    /\ (config.forceSchemaDefinition /\ Len(schemaDef.inferred) = 0)
         => schemaDef.final = <<OperationType("query", "Query")>>
    /\ Len(schemaDef.inferred) > 0 => schemaDef.final = schemaDef.inferred
    /\ (config.forceSchemaDefinition /\ astNodes = <<>>)
         => mergedNodeDefinitions = <<SchemaNode(<<OperationType("query", "Query")>>)>>

\* the forced block for an input that merges no declaration named Query
C2_Witness ==
  /\ Returned
  /\ config.forceSchemaDefinition
  /\ Len(mergedNodes) > 0
  /\ ~HasMergedNode(mergedNodes, "Query")
  /\ schemaDef.inferred = <<>>
  /\ schemaDef.final = <<OperationType("query", "Query")>>

SchemaPositions == {i \in DOMAIN mergedNodeDefinitions : IsSchemaNode(mergedNodeDefinitions[i])}

\* C3: the returned list holds at most one schema definition and at most one
\* declaration per name; it holds a schema definition exactly when the block
\* ends with at least one operation-type entry, and that definition carries the
\* block's entries, so a block with zero entries is never returned.
C3_OneRootBlock ==
  Returned =>
    /\ Cardinality(SchemaPositions) <= 1
    /\ \A i, j \in DOMAIN mergedNodeDefinitions :
         (i # j /\ mergedNodeDefinitions[i].name = mergedNodeDefinitions[j].name)
           => (i \in SchemaPositions /\ j \in SchemaPositions)
    /\ (SchemaPositions # {}) <=> (Len(schemaDef.final) > 0)
    /\ \A i \in SchemaPositions :
         /\ mergedNodeDefinitions[i].operationTypes = schemaDef.final
         /\ Len(mergedNodeDefinitions[i].operationTypes) > 0

\* an explicit block without entries, nothing inferred or forced: no block is returned
C3_Witness ==
  /\ Returned
  /\ schemaDef.slot # 0
  /\ schemaDef.final = <<>>
  /\ Len(astNodes) > Len(mergedNodes) + 1
  /\ Len(mergedNodeDefinitions) = Len(mergedNodes)

\* the list before the sort, stated from the map and the block
IsUnsortedList(list) ==
  /\ IsPrefix(mergedNodes, list)
  /\ Len(list) = Len(mergedNodes) + (IF Len(schemaDef.final) > 0 THEN 1 ELSE 0)
  /\ Len(schemaDef.final) > 0 => list[Len(list)] = SchemaNode(schemaDef.final)

C10_InputUnchanged ==
  (Returned /\ schemaDef.slot # 0) => astNodes[schemaDef.slot].operationTypes = schemaDef.explicit

====
